---------------------------- MODULE Spec2Model ----------------------------
(***************************************************************************)
(* Batch routing pipeline of tools/precompute_real_routes.py.             *)
(*                                                                         *)
(* main() loads hubs, edges and locations, routes every hub edge and then  *)
(* every location -> hub link through route_osrm, falls back on a routing  *)
(* failure, and writes the two output documents at the end.                *)
(*                                                                         *)
(* Coordinates are integers (degrees scaled), the service's floating-point *)
(* distance and duration are carried in tenths so that int(round(.)) is    *)
(* computed rather than assumed.                                           *)
(***************************************************************************)
EXTENDS Integers, Sequences, FiniteSets, TLC

VARIABLES
    hubs,          \* hubs.json["hubs"]                    (line 65)
    edges,         \* edges.json["edges"]                  (line 66)
    locs,          \* locations.json["locations"]          (line 67)
    total_steps,   \* len(edges) + len(locs)               (line 71)
    done_steps,    \* completed-item counter               (line 72)
    real_edges,    \* hub-edge output collection           (line 75)
    real_links,    \* location-link output collection      (line 105)
    i,             \* enumerate index of the edge loop     (line 80)
    j,             \* enumerate index of the link loop     (line 106)
    pc,            \* position of main()
    status,        \* "running", "done", "aborted", "interrupted"
    error,         \* the exception that left main(), or "none"
    net_calls,     \* number of urlopen calls made by route_osrm
    route_log,     \* one entry per try block executed: what the router did
    edges_file,    \* docs/data/edges.real.json
    links_file,    \* docs/data/location_links.real.json
    start_ts,      \* time.time() at the start of the run (line 73)
    clock,         \* wall-clock time, in hundredths of a second
    req_starts,    \* the time at which each urlopen call started
    progress_log   \* what each call of progress() was given and reported

vars == <<hubs, edges, locs, total_steps, done_steps, real_edges, real_links,
          i, j, pc, status, error, net_calls, route_log, edges_file, links_file,
          start_ts, clock, req_starts, progress_log>>

inputs == <<hubs, edges, locs, total_steps, start_ts>>

timing == <<clock, req_starts, progress_log>>

---------------------------------------------------------------------------
(* Bounds of the model.                                                    *)

MaxEdges == 2
MaxLocs == 2

\* DELAY = 0.15 s, in hundredths of a second
DELAY == 15

\* the wall-clock time at which the run starts
StartTime == 1000

---------------------------------------------------------------------------
(* Input records.  A record is a function from its keys, so a record that  *)
(* lacks a key has a smaller DOMAIN, as a JSON object does.                *)

H1 == [id |-> "H1", lat |-> 10, lng |-> 20]
H2 == [id |-> "H2", lat |-> 30, lng |-> 40]
H2NoLat == [id |-> "H2", lng |-> 40]

HubLists == { <<H1, H2>>, <<H1, H2NoLat>> }

EdgePool ==
    { [from |-> "H1", to |-> "H2"],
      [from |-> "H2", to |-> "H1", label |-> "return"],
      [from |-> "H1", to |-> "H9"] }

LocPool ==
    { [id |-> "L1", hubId |-> "H1", lat |-> 50, lng |-> 60],
      [id |-> "L2", hubId |-> "H2", lat |-> 70, lng |-> 80],
      [id |-> "L3", hubId |-> "H9", lat |-> 90, lng |-> 95],
      [id |-> "L4", hubId |-> "H1", lat |-> 55] }

SeqsUpTo(S, n) == UNION { [1..k -> S] : k \in 0..n }

---------------------------------------------------------------------------
(* The routing service.  A response is what urlopen + json.loads give:     *)
(* a network error, or a document with a list of candidate routes.         *)

RouteA == [coords |-> << <<20, 10>>, <<25, 15>>, <<40, 30>> >>,
           distance |-> 10045, duration |-> 1205]
RouteB == [coords |-> << <<20, 10>>, <<40, 30>> >>,
           distance |-> 9996, duration |-> 1195]

\* latency: the time urlopen and resp.read() block; a refused connection
\* fails at once
Responses ==
    { [net |-> "error", routes |-> << >>, latency |-> 0],
      [net |-> "ok", routes |-> << >>, latency |-> 0],
      [net |-> "ok", routes |-> <<RouteA>>, latency |-> 4],
      [net |-> "ok", routes |-> <<RouteB, RouteA>>, latency |-> 20] }

\* What the service may answer to one request (lines 21-27): it may fail,
\* and the route it finds is determined by the coordinates asked for.
ServiceAnswers(a_lng, a_lat, b_lng, b_lat) ==
    { resp \in Responses :
        \/ resp.net = "error"
        \/ Len(resp.routes) = 0
        \/ Len(resp.routes) = (IF <<a_lng, a_lat>> = <<20, 10>> THEN 1 ELSE 2) }

\* Python 3 round() on a value given in tenths: nearest integer, ties to even
PyRound(t) ==
    LET q == t \div 10
        r == t % 10
    IN  IF r < 5 THEN q
        ELSE IF r > 5 THEN q + 1
        ELSE IF q % 2 = 0 THEN q ELSE q + 1

NoResult == [ok |-> FALSE, coords |-> << >>, distance_m |-> 0, duration_s |-> 0]

\* route_osrm: any exception (network, empty routes) is one failure signal
route_osrm(resp) ==
    IF resp.net = "error" \/ Len(resp.routes) = 0
    THEN NoResult
    ELSE LET r == resp.routes[1]
         IN  [ok |-> TRUE,
              coords |-> r.coords,
              distance_m |-> PyRound(r.distance),
              duration_s |-> PyRound(r.duration)]

---------------------------------------------------------------------------
(* Helpers of main().                                                      *)

\* {h["id"]: h for h in hubs}: a later hub with the same id wins
HubsById(hs) ==
    [id \in { hs[k].id : k \in 1..Len(hs) } |->
        LET last == CHOOSE k \in 1..Len(hs) :
                        /\ hs[k].id = id
                        /\ \A m \in 1..Len(hs) : hs[m].id = id => m <= k
        IN  hs[last]]

hubs_by_id == HubsById(hubs)

\* hubs_by_id[e["from"]] and hubs_by_id[e["to"]] raise no KeyError
EdgeResolves(e) == e.from \in DOMAIN hubs_by_id /\ e.to \in DOMAIN hubs_by_id

\* hubs_by_id[loc["hubId"]] raises no KeyError
LocResolves(loc) == loc.hubId \in DOMAIN hubs_by_id

\* the four subscripts that build route_osrm's arguments raise no KeyError
HasCoords(a, b) ==
    /\ "lng" \in DOMAIN a /\ "lat" \in DOMAIN a
    /\ "lng" \in DOMAIN b /\ "lat" \in DOMAIN b

\* EdgeRecord with the two identifiers exchanged
EdgeRecordSwapped(e, r) ==
    [from |-> e.to, to |-> e.from,
     distance_m |-> r.distance_m, duration_s |-> r.duration_s,
     polyline |-> r.coords]

\* EdgeRecord with the two measures exchanged
EdgeRecordMeasuresSwapped(e, r) ==
    [from |-> e.from, to |-> e.to,
     distance_m |-> r.duration_s, duration_s |-> r.distance_m,
     polyline |-> r.coords]

\* lines 86-92
EdgeRecord(e, r) ==
    [from |-> e.from, to |-> e.to,
     distance_m |-> r.distance_m, duration_s |-> r.duration_s,
     polyline |-> r.coords]

\* a fallback that keeps only the identifiers of the input edge
EdgeFallbackBare(e) == [from |-> e.from, to |-> e.to]

\* line 95
EdgeFallback(e) == e

\* LinkRecord with the two identifiers exchanged
LinkRecordSwapped(loc, r) ==
    [from |-> loc.hubId, to |-> loc.id,
     distance_m |-> r.distance_m, duration_s |-> r.duration_s,
     polyline |-> r.coords]

\* lines 111-117
LinkRecord(loc, r) ==
    [from |-> loc.id, to |-> loc.hubId,
     distance_m |-> r.distance_m, duration_s |-> r.duration_s,
     polyline |-> r.coords]

\* a straight line without the two measures
LinkFallbackBare(loc, hub) ==
    [from |-> loc.id, to |-> loc.hubId,
     polyline |-> << <<loc.lng, loc.lat>>, <<hub.lng, hub.lat>> >>]

\* a straight line whose points are [latitude, longitude]
LinkFallbackLatLng(loc, hub) ==
    [from |-> loc.id, to |-> loc.hubId,
     distance_m |-> 0, duration_s |-> 0,
     polyline |-> << <<loc.lat, loc.lng>>, <<hub.lat, hub.lng>> >>]

\* lines 120-126
LinkFallback(loc, hub) ==
    [from |-> loc.id, to |-> loc.hubId,
     distance_m |-> 0, duration_s |-> 0,
     polyline |-> << <<loc.lng, loc.lat>>, <<hub.lng, hub.lat>> >>]

LogEntry(phase, idx, called, r) ==
    [phase |-> phase, idx |-> idx, called |-> called, r |-> r]

OldFile == [st |-> "old", doc |-> << >>]

\* save_json: open(p, "w") truncates, json.dump writes; either may raise
save_json(file, obj, outcome) ==
    CASE outcome = "ok"        -> [st |-> "written", doc |-> obj]
      [] outcome = "open_fail" -> file
      [] outcome = "dump_fail" -> [st |-> "partial", doc |-> << >>]

WriteOutcomes == {"ok", "open_fail", "dump_fail"}

\* bar_len (line 52)
BarLen == 28

Max(a, b) == IF a >= b THEN a ELSE b

\* int(x) of a time given in hundredths of a second: truncation toward zero
IntSeconds(t) == IF t >= 0 THEN t \div 100 ELSE -((-t) \div 100)

\* fmt_time (lines 35-43): the hours, minutes and seconds it renders
fmt_time(t) ==
    LET seconds == Max(0, IntSeconds(t))
        m0 == seconds \div 60
    IN  [h |-> m0 \div 60, m |-> m0 % 60, s |-> seconds % 60]

\* a progress whose empty total reports 0% instead of 100%
progressZeroTotal(done, total, start, now, label) ==
    [done |-> done,
     total |-> total,
     pct_num |-> IF total # 0 THEN done * 100 ELSE 0,
     pct_den |-> IF total # 0 THEN total ELSE 1,
     filled |-> IF total # 0 THEN (BarLen * done) \div total ELSE 0,
     elapsed |-> fmt_time(now - start),
     eta |-> fmt_time(0),
     label |-> label]

\* progress (lines 45-62).  pct is the exact fraction pct_num / pct_den;
\* remaining is (total - done) / rate with rate = done / elapsed.
progress(done, total, start, now, label) ==
    LET elapsed == now - start
        rate_pos == elapsed > 0 /\ done > 0
        remaining == IF rate_pos THEN ((total - done) * elapsed) \div done
                                 ELSE 0
    IN  [done |-> done,
         total |-> total,
         pct_num |-> IF total # 0 THEN done * 100 ELSE 100,
         pct_den |-> IF total # 0 THEN total ELSE 1,
         filled |-> IF total # 0 THEN (BarLen * done) \div total ELSE BarLen,
         elapsed |-> fmt_time(elapsed),
         eta |-> fmt_time(remaining),
         label |-> label]

\* line 83
EdgeLabel(n, e) == <<"EDGE", n, Len(edges), e.from, e.to>>

\* line 108
LinkLabel(n, loc) == <<"LINK", n, Len(locs), loc.id, loc.hubId>>

\* time.sleep(d) returns no earlier than d after it was called
sleep(now, d) == now + d

---------------------------------------------------------------------------
Init ==
    /\ hubs \in HubLists
    /\ edges \in SeqsUpTo(EdgePool, MaxEdges)
    /\ locs \in SeqsUpTo(LocPool, MaxLocs)
    /\ total_steps = Len(edges) + Len(locs)
    /\ done_steps = 0
    /\ real_edges = << >>
    /\ real_links = << >>
    /\ i = 0
    /\ j = 0
    /\ pc = "edge_loop"
    /\ status = "running"
    /\ error = "none"
    /\ net_calls = 0
    /\ route_log = << >>
    /\ edges_file = OldFile
    /\ links_file = OldFile
    /\ start_ts = StartTime
    /\ clock = start_ts
    /\ req_starts = << >>
    /\ progress_log = << >>

Abort(err) ==
    /\ status' = "aborted"
    /\ error' = err

\* an edge loop that passes over an edge whose hubs are unknown
EdgeNextSkipUnknown ==
    /\ status = "running" /\ pc = "edge_loop" /\ i < Len(edges)
    /\ i' = i + 1
    /\ IF EdgeResolves(edges[i + 1])
       THEN pc' = "edge_try"
       ELSE pc' = pc
    /\ UNCHANGED <<inputs, done_steps, real_edges, real_links, j, status, error,
                   net_calls, route_log, edges_file, links_file>>
    /\ UNCHANGED timing

\* lines 80-83: take the next edge and resolve its two hubs
EdgeNext ==
    /\ status = "running" /\ pc = "edge_loop" /\ i < Len(edges)
    /\ i' = i + 1
    /\ IF EdgeResolves(edges[i + 1])
       THEN pc' = "edge_try" /\ UNCHANGED <<status, error>>
       ELSE pc' = pc /\ Abort("KeyError_id")
    /\ UNCHANGED <<inputs, done_steps, real_edges, real_links, j, net_calls,
                   route_log, edges_file, links_file>>
    /\ UNCHANGED timing

\* an edge try block whose except clause emits nothing
EdgeTrySilentFailure ==
    /\ status = "running" /\ pc = "edge_try"
    /\ LET e == edges[i]
           a == hubs_by_id[e.from]
           b == hubs_by_id[e.to]
       IN  IF HasCoords(a, b)
           THEN \E resp \in ServiceAnswers(a.lng, a.lat, b.lng, b.lat) :
                  LET r == route_osrm(resp)
                  IN  /\ net_calls' = net_calls + 1
                      /\ req_starts' = Append(req_starts, clock)
                      /\ clock' = clock + resp.latency
                      /\ route_log' = Append(route_log, LogEntry("edge", i, TRUE, r))
                      /\ real_edges' = IF r.ok THEN Append(real_edges, EdgeRecord(e, r))
                                              ELSE real_edges
           ELSE /\ net_calls' = net_calls
                /\ UNCHANGED <<req_starts, clock>>
                /\ route_log' = Append(route_log, LogEntry("edge", i, FALSE, NoResult))
                /\ real_edges' = real_edges
    /\ pc' = "edge_tick"
    /\ UNCHANGED <<inputs, done_steps, real_links, i, j, status, error,
                   edges_file, links_file, progress_log>>

\* lines 84-95: the try block of the edge loop
EdgeTry ==
    /\ status = "running" /\ pc = "edge_try"
    /\ LET e == edges[i]
           a == hubs_by_id[e.from]
           b == hubs_by_id[e.to]
       IN  IF HasCoords(a, b)
           THEN \E resp \in ServiceAnswers(a.lng, a.lat, b.lng, b.lat) :
                  LET r == route_osrm(resp)
                  IN  /\ net_calls' = net_calls + 1
                      /\ req_starts' = Append(req_starts, clock)
                      /\ clock' = clock + resp.latency
                      /\ route_log' = Append(route_log, LogEntry("edge", i, TRUE, r))
                      /\ real_edges' = Append(real_edges,
                             IF r.ok THEN EdgeRecord(e, r) ELSE EdgeFallback(e))
           ELSE /\ net_calls' = net_calls
                /\ UNCHANGED <<req_starts, clock>>
                /\ route_log' = Append(route_log, LogEntry("edge", i, FALSE, NoResult))
                /\ real_edges' = Append(real_edges, EdgeFallback(e))
    /\ pc' = "edge_tick"
    /\ UNCHANGED <<inputs, done_steps, real_links, i, j, status, error,
                   edges_file, links_file, progress_log>>

\* an edge tick that reports and sleeps but does not count the item
EdgeTickNoCount ==
    /\ status = "running" /\ pc = "edge_tick"
    /\ done_steps' = done_steps
    /\ progress_log' = Append(progress_log,
           progress(done_steps, total_steps, start_ts, clock,
                    EdgeLabel(i, edges[i])))
    /\ clock' = sleep(clock, DELAY)
    /\ pc' = "edge_loop"
    /\ UNCHANGED <<inputs, real_edges, real_links, i, j, status, error,
                   net_calls, route_log, edges_file, links_file, req_starts>>

\* an edge tick that counts and reports but does not sleep
EdgeTickNoSleep ==
    /\ status = "running" /\ pc = "edge_tick"
    /\ done_steps' = done_steps + 1
    /\ progress_log' = Append(progress_log,
           progress(done_steps + 1, total_steps, start_ts, clock,
                    EdgeLabel(i, edges[i])))
    /\ clock' = clock
    /\ pc' = "edge_loop"
    /\ UNCHANGED <<inputs, real_edges, real_links, i, j, status, error,
                   net_calls, route_log, edges_file, links_file, req_starts>>

\* lines 97-99: count the item, report progress, sleep
EdgeTick ==
    /\ status = "running" /\ pc = "edge_tick"
    /\ done_steps' = done_steps + 1
    /\ progress_log' = Append(progress_log,
           progress(done_steps + 1, total_steps, start_ts, clock,
                    EdgeLabel(i, edges[i])))
    /\ clock' = sleep(clock, DELAY)
    /\ pc' = "edge_loop"
    /\ UNCHANGED <<inputs, real_edges, real_links, i, j, status, error,
                   net_calls, route_log, edges_file, links_file, req_starts>>

\* an end of Phase 1 that saves the hub edges at once
EdgesEndSaving ==
    /\ status = "running" /\ pc = "edge_loop" /\ i = Len(edges)
    /\ real_links' = << >>
    /\ edges_file' = [st |-> "written", doc |-> [edges |-> real_edges]]
    /\ pc' = "link_loop"
    /\ UNCHANGED <<inputs, done_steps, real_edges, i, j, status, error,
                   net_calls, route_log, links_file>>
    /\ UNCHANGED timing

\* an end of Phase 1 that may be taken while edges remain
EdgesEndEarly ==
    /\ status = "running" /\ pc = "edge_loop" /\ i <= Len(edges)
    /\ real_links' = << >>
    /\ pc' = "link_loop"
    /\ UNCHANGED <<inputs, done_steps, real_edges, i, j, status, error,
                   net_calls, route_log, edges_file, links_file>>
    /\ UNCHANGED timing

\* lines 101-105: the edge loop is exhausted
EdgesEnd ==
    /\ status = "running" /\ pc = "edge_loop" /\ i = Len(edges)
    /\ real_links' = << >>
    /\ pc' = "link_loop"
    /\ UNCHANGED <<inputs, done_steps, real_edges, i, j, status, error,
                   net_calls, route_log, edges_file, links_file>>
    /\ UNCHANGED timing

\* a link loop that passes over a location whose hub is unknown
LinkNextSkipUnknown ==
    /\ status = "running" /\ pc = "link_loop" /\ j < Len(locs)
    /\ j' = j + 1
    /\ IF LocResolves(locs[j + 1])
       THEN pc' = "link_try"
       ELSE pc' = pc
    /\ UNCHANGED <<inputs, done_steps, real_edges, real_links, i, status, error,
                   net_calls, route_log, edges_file, links_file>>
    /\ UNCHANGED timing

\* lines 106-108: take the next location and resolve its hub
LinkNext ==
    /\ status = "running" /\ pc = "link_loop" /\ j < Len(locs)
    /\ j' = j + 1
    /\ IF LocResolves(locs[j + 1])
       THEN pc' = "link_try" /\ UNCHANGED <<status, error>>
       ELSE pc' = pc /\ Abort("KeyError_id")
    /\ UNCHANGED <<inputs, done_steps, real_edges, real_links, i, net_calls,
                   route_log, edges_file, links_file>>
    /\ UNCHANGED timing

\* lines 109-126: the try block of the link loop; the except handler reads
\* the coordinates again, so a missing one raises out of the handler
LinkTry ==
    /\ status = "running" /\ pc = "link_try"
    /\ LET loc == locs[j]
           hub == hubs_by_id[loc.hubId]
       IN  IF HasCoords(loc, hub)
           THEN \E resp \in ServiceAnswers(loc.lng, loc.lat, hub.lng, hub.lat) :
                  LET r == route_osrm(resp)
                  IN  /\ net_calls' = net_calls + 1
                      /\ req_starts' = Append(req_starts, clock)
                      /\ clock' = clock + resp.latency
                      /\ route_log' = Append(route_log, LogEntry("link", j, TRUE, r))
                      /\ real_links' = Append(real_links,
                             IF r.ok THEN LinkRecord(loc, r)
                                     ELSE LinkFallback(loc, hub))
                      /\ pc' = "link_tick"
                      /\ UNCHANGED <<status, error>>
           ELSE /\ net_calls' = net_calls
                /\ UNCHANGED <<req_starts, clock>>
                /\ route_log' = Append(route_log, LogEntry("link", j, FALSE, NoResult))
                /\ real_links' = real_links
                /\ pc' = pc
                /\ Abort("KeyError_field")
    /\ UNCHANGED <<inputs, done_steps, real_edges, i, j, edges_file, links_file,
                   progress_log>>

\* a link tick that reports before it counts the item
LinkTickReportFirst ==
    /\ status = "running" /\ pc = "link_tick"
    /\ done_steps' = done_steps + 1
    /\ progress_log' = Append(progress_log,
           progress(done_steps, total_steps, start_ts, clock,
                    LinkLabel(j, locs[j])))
    /\ clock' = sleep(clock, DELAY)
    /\ pc' = "link_loop"
    /\ UNCHANGED <<inputs, real_edges, real_links, i, j, status, error,
                   net_calls, route_log, edges_file, links_file, req_starts>>

\* lines 128-130
LinkTick ==
    /\ status = "running" /\ pc = "link_tick"
    /\ done_steps' = done_steps + 1
    /\ progress_log' = Append(progress_log,
           progress(done_steps + 1, total_steps, start_ts, clock,
                    LinkLabel(j, locs[j])))
    /\ clock' = sleep(clock, DELAY)
    /\ pc' = "link_loop"
    /\ UNCHANGED <<inputs, real_edges, real_links, i, j, status, error,
                   net_calls, route_log, edges_file, links_file, req_starts>>

\* line 132: the link loop is exhausted
LinksEnd ==
    /\ status = "running" /\ pc = "link_loop" /\ j = Len(locs)
    /\ pc' = "write_edges"
    /\ UNCHANGED <<inputs, done_steps, real_edges, real_links, i, j, status,
                   error, net_calls, route_log, edges_file, links_file>>
    /\ UNCHANGED timing

\* a first write whose failure is noted but does not stop the run
WriteEdgesContinuing ==
    /\ status = "running" /\ pc = "write_edges"
    /\ \E outcome \in WriteOutcomes :
         /\ edges_file' = save_json(edges_file, [edges |-> real_edges], outcome)
         /\ error' = IF outcome = "ok" THEN error ELSE "PersistenceError"
    /\ pc' = "write_links"
    /\ UNCHANGED <<inputs, done_steps, real_edges, real_links, i, j, status,
                   net_calls, route_log, links_file>>
    /\ UNCHANGED timing

\* line 134
WriteEdges ==
    /\ status = "running" /\ pc = "write_edges"
    /\ \E outcome \in WriteOutcomes :
         /\ edges_file' = save_json(edges_file, [edges |-> real_edges], outcome)
         /\ IF outcome = "ok"
            THEN pc' = "write_links" /\ UNCHANGED <<status, error>>
            ELSE pc' = pc /\ Abort("PersistenceError")
    /\ UNCHANGED <<inputs, done_steps, real_edges, real_links, i, j,
                   net_calls, route_log, links_file>>
    /\ UNCHANGED timing

\* lines 135-139
WriteLinks ==
    /\ status = "running" /\ pc = "write_links"
    /\ \E outcome \in WriteOutcomes :
         /\ links_file' = save_json(links_file, [links |-> real_links], outcome)
         /\ IF outcome = "ok"
            THEN pc' = "done" /\ status' = "done" /\ error' = error
            ELSE pc' = pc /\ Abort("PersistenceError")
    /\ UNCHANGED <<inputs, done_steps, real_edges, real_links, i, j,
                   net_calls, route_log, edges_file>>
    /\ UNCHANGED timing

\* the operator terminates the process (section 5: no cancellation, no checkpoint)
Interrupt ==
    /\ status = "running"
    /\ status' = "interrupted"
    /\ UNCHANGED <<inputs, done_steps, real_edges, real_links, i, j, pc, error,
                   net_calls, route_log, edges_file, links_file>>
    /\ UNCHANGED timing

Next ==
    \/ EdgeNext
    \/ EdgeTry
    \/ EdgeTick
    \/ EdgesEnd
    \/ LinkNext
    \/ LinkTry
    \/ LinkTick
    \/ LinksEnd
    \/ WriteEdges
    \/ WriteLinks
    \/ Interrupt

Spec == Init /\ [][Next]_vars

---------------------------------------------------------------------------
(* The run left alone by the operator: every step of main() that can be    *)
(* taken is eventually taken (the request returns or fails, the sleep      *)
(* ends, the write returns or raises).                                     *)

RunStep ==
    \/ EdgeNext
    \/ EdgeTry
    \/ EdgeTick
    \/ EdgesEnd
    \/ LinkNext
    \/ LinkTry
    \/ LinkTick
    \/ LinksEnd
    \/ WriteEdges
    \/ WriteLinks

FairSpec == Init /\ [][RunStep]_vars /\ WF_vars(RunStep)

---------------------------------------------------------------------------
(* progress() on its own: the arguments are drawn from bounded sets and    *)
(* one call is made.                                                       *)

MaxArg == 6

ElapsedPool == {0, 250}

InitProgress ==
    /\ hubs = <<H1, H2>>
    /\ edges = << >>
    /\ locs = << >>
    /\ total_steps \in 0..MaxArg
    /\ done_steps \in 0..MaxArg
    /\ real_edges = << >>
    /\ real_links = << >>
    /\ i = 0
    /\ j = 0
    /\ pc = "progress_call"
    /\ status = "running"
    /\ error = "none"
    /\ net_calls = 0
    /\ route_log = << >>
    /\ edges_file = OldFile
    /\ links_file = OldFile
    /\ start_ts = StartTime
    /\ clock \in { start_ts + d : d \in ElapsedPool }
    /\ req_starts = << >>
    /\ progress_log = << >>

ProgressCall ==
    /\ pc = "progress_call"
    /\ progress_log' = Append(progress_log,
           progress(done_steps, total_steps, start_ts, clock, <<"CALL">>))
    /\ pc' = "progress_done"
    /\ UNCHANGED <<inputs, done_steps, real_edges, real_links, i, j, status,
                   error, net_calls, route_log, edges_file, links_file,
                   clock, req_starts>>

NextProgress == ProgressCall

ProgressSpec == InitProgress /\ [][NextProgress]_vars

TypeOK ==
    /\ done_steps \in 0..total_steps
    /\ i \in 0..Len(edges)
    /\ j \in 0..Len(locs)
    /\ status \in {"running", "done", "aborted", "interrupted"}

---------------------------------------------------------------------------
(* Vocabulary of the properties.                                           *)

PipelinePcs == {"edge_loop", "edge_try", "edge_tick",
                "link_loop", "link_try", "link_tick"}

\* line 132 has been reached: both loops are over
AtWriteStep == pc \in {"write_edges", "write_links", "done"}

FilesUnchanged == edges_file = OldFile /\ links_file = OldFile

\* the route_log entry of the try block run for item idx of a phase
Logged(phase, idx) ==
    \E n \in 1..Len(route_log) :
        route_log[n].phase = phase /\ route_log[n].idx = idx

LogOf(phase, idx) ==
    route_log[CHOOSE n \in 1..Len(route_log) :
                  route_log[n].phase = phase /\ route_log[n].idx = idx]

\* the router client was invoked for the item and raised
RouterFailed(phase, idx) ==
    Logged(phase, idx) /\ LogOf(phase, idx).called /\ ~LogOf(phase, idx).r.ok

\* the try block of the item raised, in the router client or before the call
TryFailed(phase, idx) ==
    Logged(phase, idx) /\ ~LogOf(phase, idx).r.ok

RouterSucceeded(phase, idx) ==
    Logged(phase, idx) /\ LogOf(phase, idx).r.ok

HasMeasures(rec) ==
    /\ "distance_m" \in DOMAIN rec /\ "duration_s" \in DOMAIN rec
    /\ rec.distance_m \in Nat /\ rec.duration_s \in Nat

---------------------------------------------------------------------------
(* C1: a run that reaches the write step has produced real_edges with      *)
(* exactly one record per input edge, in input order, the k-th record      *)
(* carrying the from/to of the k-th input edge, whatever the router did.   *)
C1_EdgesOnePerInput ==
    AtWriteStep =>
        /\ Len(real_edges) = Len(edges)
        /\ \A k \in 1..Len(edges) :
              /\ real_edges[k].from = edges[k].from
              /\ real_edges[k].to = edges[k].to

C1_Witness ==
    /\ pc = "write_edges"
    /\ Len(edges) = 2
    /\ edges[1] # edges[2]
    /\ RouterSucceeded("edge", 1)
    /\ RouterFailed("edge", 2)

(* C2: a run that reaches the write step has produced real_links with      *)
(* exactly one record per location, in input order, from = the location's  *)
(* id and to = the location's hubId.                                       *)
C2_LinksOnePerLocation ==
    AtWriteStep =>
        /\ Len(real_links) = Len(locs)
        /\ \A k \in 1..Len(locs) :
              /\ real_links[k].from = locs[k].id
              /\ real_links[k].to = locs[k].hubId

C2_Witness ==
    /\ pc = "write_edges"
    /\ Len(locs) = 2
    /\ locs[1] # locs[2]
    /\ RouterFailed("link", 1)
    /\ RouterSucceeded("link", 2)

(* C3, as stated: every record of either output collection has distance_m  *)
(* and duration_s present as non-negative integers, the records of the     *)
(* Phase 1 fallback included.                                              *)
C3_AllRecordsMeasured ==
    /\ \A k \in 1..Len(real_edges) : HasMeasures(real_edges[k])
    /\ \A k \in 1..Len(real_links) : HasMeasures(real_links[k])

(* C3, amended: every record of real_links, and every record of real_edges *)
(* built from a router result, has distance_m and duration_s present as    *)
(* non-negative integers; a Phase 1 fallback record has exactly the keys   *)
(* of its input edge, so it has them only if the input edge has.           *)
C3_MeasuredExceptEdgeFallback ==
    /\ \A k \in 1..Len(real_links) : HasMeasures(real_links[k])
    /\ \A k \in 1..Len(real_edges) :
          /\ RouterSucceeded("edge", k) => HasMeasures(real_edges[k])
          /\ TryFailed("edge", k) => DOMAIN real_edges[k] = DOMAIN edges[k]

C3_Witness ==
    /\ Len(real_edges) = 2
    /\ RouterSucceeded("edge", 1)
    /\ RouterFailed("edge", 2)
    /\ "distance_m" \notin DOMAIN real_edges[2]
    /\ Len(real_links) >= 1
    /\ RouterFailed("link", 1)

(* C4: a routing failure on a single item never aborts the run: the       *)
(* failure is caught at that item, a fallback record is emitted for it,    *)
(* the run goes on to the next item, and before the write step only an     *)
(* unknown node identifier is fatal.                                       *)
C4_FailureIsolated ==
    [][ /\ (pc \in {"edge_try", "link_try"} /\ Len(route_log') > Len(route_log)
              /\ ~route_log'[Len(route_log')].r.ok)
           => /\ status' = "running"
              /\ pc' \in {"edge_tick", "link_tick"}
              /\ Len(real_edges') + Len(real_links')
                    = Len(real_edges) + Len(real_links) + 1
        /\ (status' = "aborted" /\ pc' \in PipelinePcs)
           => error' = "KeyError_id" ]_vars

(* C5: if the router client fails for a location item, the record emitted  *)
(* for that location is from = loc.id, to = loc.hubId, distance_m = 0,     *)
(* duration_s = 0 and polyline = [[loc.lng, loc.lat], [hub.lng, hub.lat]]  *)
(* with hub the hub named by loc.hubId.                                    *)
C5_LinkFallbackShape ==
    \A k \in 1..Len(locs) :
        RouterFailed("link", k) =>
            /\ Len(real_links) >= k
            /\ real_links[k] =
                 [from |-> locs[k].id,
                  to |-> locs[k].hubId,
                  distance_m |-> 0,
                  duration_s |-> 0,
                  polyline |-> << <<locs[k].lng, locs[k].lat>>,
                                  <<hubs_by_id[locs[k].hubId].lng,
                                    hubs_by_id[locs[k].hubId].lat>> >>]

C5_Witness ==
    /\ Len(real_links) = 2
    /\ RouterFailed("link", 2)
    /\ RouterSucceeded("link", 1)
    /\ locs[2].hubId = "H2"

(* C6: if the router client fails for a hub-edge item, the record emitted  *)
(* for it in real_edges equals the input edge record: no key added,        *)
(* removed or altered.                                                     *)
C6_EdgeFallbackIsInput ==
    \A k \in 1..Len(edges) :
        TryFailed("edge", k) =>
            /\ Len(real_edges) >= k
            /\ real_edges[k] = edges[k]

C6_Witness ==
    /\ Len(real_edges) = 2
    /\ RouterFailed("edge", 2)
    /\ "label" \in DOMAIN edges[2]
    /\ RouterSucceeded("edge", 1)

\* the first edge whose hubs do not resolve
FirstUnknownEdge(k) ==
    /\ k \in 1..Len(edges)
    /\ ~EdgeResolves(edges[k])
    /\ \A m \in 1..(k - 1) : EdgeResolves(edges[m])

(* C7, as stated: when any input edge, at any position, references a hub   *)
(* id that is not in hubs, no network call to the routing service is made. *)
C7_NoCallBeforeAbort ==
    (\E k \in 1..Len(edges) : ~EdgeResolves(edges[k])) => net_calls = 0

(* C7, amended: the unknown hub id is found when its edge is reached.  If  *)
(* the k-th edge is the first that references an unknown hub, the run      *)
(* aborts on reaching it, after at most k-1 network calls (those of the    *)
(* earlier edges) and none for edge k or any later item; no network call   *)
(* at all when k = 1.                                                      *)
C7_AbortAtFirstUnknownEdge ==
    \A k \in 1..Len(edges) :
        FirstUnknownEdge(k) =>
            /\ i <= k
            /\ net_calls <= k - 1
            /\ net_calls <= Len(real_edges)
            /\ Len(real_edges) <= k - 1
            /\ pc \in {"edge_loop", "edge_try", "edge_tick"}
            /\ i = k => (status = "aborted" /\ error = "KeyError_id")

C7_Witness ==
    /\ FirstUnknownEdge(2)
    /\ i = 2
    /\ status = "aborted"
    /\ net_calls = 1

(* C8: an edge with an unknown hub id, or a location with an unknown       *)
(* hubId, raises out of the loop: no try block runs for it, no fallback    *)
(* record is emitted, the run aborts and neither output file is written,   *)
(* however many items were processed before.                               *)
C8_UnknownIdIsFatal ==
    /\ \A k \in 1..i :
          ~EdgeResolves(edges[k]) =>
              /\ i = k /\ pc = "edge_loop"
              /\ status = "aborted" /\ error = "KeyError_id"
              /\ ~Logged("edge", k) /\ Len(real_edges) = k - 1
              /\ FilesUnchanged
    /\ \A k \in 1..j :
          ~LocResolves(locs[k]) =>
              /\ j = k /\ pc = "link_loop"
              /\ status = "aborted" /\ error = "KeyError_id"
              /\ ~Logged("link", k) /\ Len(real_links) = k - 1
              /\ FilesUnchanged

C8_Witness ==
    /\ status = "aborted" /\ error = "KeyError_id"
    /\ pc = "link_loop" /\ j = 2
    /\ ~LocResolves(locs[2])
    /\ done_steps = 3
    /\ FilesUnchanged

(* C9: no output file is written while an item of Phase 1 or Phase 2 is    *)
(* unprocessed: a file differs from what it was only after both loops are  *)
(* over, so a run that stops anywhere in the pipeline leaves both files    *)
(* unchanged.                                                              *)
C9_WritesAfterBothPhases ==
    /\ ~FilesUnchanged =>
          /\ AtWriteStep
          /\ i = Len(edges) /\ j = Len(locs)
          /\ Len(real_edges) = Len(edges) /\ Len(real_links) = Len(locs)
          /\ done_steps = total_steps
    /\ pc \in PipelinePcs => FilesUnchanged

C9_Witness ==
    /\ status = "interrupted"
    /\ pc = "link_tick"
    /\ Len(real_edges) = 2 /\ Len(real_links) = 1 /\ Len(locs) = 2
    /\ FilesUnchanged

(* C10, as stated: if writing either output document fails, the run halts  *)
(* and neither output file has been changed by the run.                    *)
C10_NoPartialOutput ==
    error = "PersistenceError" => (status = "aborted" /\ FilesUnchanged)

(* C10, amended: if writing an output document fails the run halts at that *)
(* write.  When edges.real.json fails, location_links.real.json is         *)
(* unchanged and edges.real.json is unchanged or truncated; when           *)
(* location_links.real.json fails, edges.real.json has already been        *)
(* rewritten in full and location_links.real.json is unchanged or          *)
(* truncated.                                                              *)
C10_HaltsAtFailedWrite ==
    error = "PersistenceError" =>
        /\ status = "aborted"
        /\ \/ /\ pc = "write_edges"
              /\ edges_file.st \in {"old", "partial"}
              /\ links_file = OldFile
           \/ /\ pc = "write_links"
              /\ edges_file = [st |-> "written", doc |-> [edges |-> real_edges]]
              /\ links_file.st \in {"old", "partial"}

C10_Witness ==
    /\ error = "PersistenceError"
    /\ pc = "write_links"
    /\ edges_file.st = "written"
    /\ Len(edges_file.doc.edges) = 2
    /\ links_file.st = "partial"

---------------------------------------------------------------------------
(* C11: done_steps starts at 0, never decreases and changes only by +1,    *)
(* and in a run that reaches the write step it equals total_steps =        *)
(* len(edges) + len(locs).                                                 *)
C11_CounterMonotone ==
    /\ done_steps = 0
    /\ total_steps = Len(edges) + Len(locs)
    /\ [][ /\ done_steps' \in {done_steps, done_steps + 1}
           /\ AtWriteStep' => done_steps' = total_steps' ]_vars

C11_Witness ==
    /\ AtWriteStep
    /\ Len(edges) = 2 /\ Len(locs) = 2
    /\ done_steps = 4

\* the percentage of a report lies in [0, 100]
PctInRange(e) == 0 <= e.pct_num /\ e.pct_num <= 100 * e.pct_den

\* the percentage of a report is 100
PctIsFull(e) == e.pct_num = 100 * e.pct_den

TriesOf(phase, idx) ==
    Cardinality({ n \in 1..Len(route_log) :
                    route_log[n].phase = phase /\ route_log[n].idx = idx })

(* C13: each item gets exactly one routing attempt: route_osrm is invoked  *)
(* once per input edge and once per location, len(edges) + len(locs)       *)
(* calls over a complete run, and a failed item is never requested again.  *)
C13_OneRequestPerItem ==
    /\ net_calls = Len(req_starts)
    /\ \A k \in 1..Len(edges) : TriesOf("edge", k) <= 1
    /\ \A k \in 1..Len(locs) : TriesOf("link", k) <= 1
    /\ AtWriteStep =>
          /\ net_calls = Len(edges) + Len(locs)
          /\ \A k \in 1..Len(edges) : Logged("edge", k) /\ LogOf("edge", k).called
          /\ \A k \in 1..Len(locs) : Logged("link", k) /\ LogOf("link", k).called

(* C14: over the whole run, across the phase boundary and after failed     *)
(* requests, request N+1 never starts earlier than DELAY after request N   *)
(* started.                                                                *)
C14_MinimumSpacing ==
    \A n \in 1..(Len(req_starts) - 1) :
        req_starts[n + 1] - req_starts[n] >= DELAY

C14_Witness ==
    /\ Len(req_starts) = 3
    /\ RouterFailed("edge", 1)
    /\ Logged("link", 1) /\ LogOf("link", 1).called
    /\ req_starts[2] - req_starts[1] = DELAY

(* C15: processing is sequential and in input order with no phase overlap: *)
(* at most one item is in progress, the n-th try block is that of edge n   *)
(* while n <= len(edges) and that of location n - len(edges) afterwards,   *)
(* and the first location is taken only after every edge was attempted.    *)
C15_SequentialInOrder ==
    /\ (i + j) - done_steps \in {0, 1}
    /\ \A n \in 1..Len(route_log) :
          IF n <= Len(edges)
          THEN route_log[n].phase = "edge" /\ route_log[n].idx = n
          ELSE route_log[n].phase = "link" /\ route_log[n].idx = n - Len(edges)
    /\ j >= 1 =>
          /\ i = Len(edges)
          /\ Len(real_edges) = Len(edges)
          /\ \A k \in 1..Len(edges) : Logged("edge", k)

C15_Witness ==
    /\ Len(edges) = 2 /\ Len(locs) = 2
    /\ Len(route_log) = 4
    /\ RouterFailed("edge", 2)
    /\ pc = "link_tick"

(* C16: when the router client succeeds for an item, the record emitted    *)
(* carries the router's polyline, distance_m and duration_s unchanged,     *)
(* with the item's from/to identifiers.                                    *)
C16_SuccessCarriesResult ==
    /\ \A k \in 1..Len(edges) :
          RouterSucceeded("edge", k) =>
              /\ Len(real_edges) >= k
              /\ real_edges[k] =
                   [from |-> edges[k].from,
                    to |-> edges[k].to,
                    distance_m |-> LogOf("edge", k).r.distance_m,
                    duration_s |-> LogOf("edge", k).r.duration_s,
                    polyline |-> LogOf("edge", k).r.coords]
    /\ \A k \in 1..Len(locs) :
          RouterSucceeded("link", k) =>
              /\ Len(real_links) >= k
              /\ real_links[k] =
                   [from |-> locs[k].id,
                    to |-> locs[k].hubId,
                    distance_m |-> LogOf("link", k).r.distance_m,
                    duration_s |-> LogOf("link", k).r.duration_s,
                    polyline |-> LogOf("link", k).r.coords]

C16_Witness ==
    /\ Len(real_edges) = 2 /\ Len(real_links) = 1
    /\ RouterSucceeded("edge", 1)
    /\ RouterSucceeded("edge", 2)
    /\ RouterSucceeded("link", 1)
    /\ real_edges[1].distance_m # real_edges[2].distance_m
    /\ "label" \in DOMAIN edges[2]

(* C17: progress is invoked exactly once per item, after the item's        *)
(* counter increment, whether the item succeeded or fell back: the k-th    *)
(* invocation receives done = k, and a complete run makes exactly          *)
(* len(edges) + len(locs) invocations.                                     *)
C17_OneReportPerItem ==
    /\ Len(progress_log) = done_steps
    /\ \A k \in 1..Len(progress_log) :
          /\ progress_log[k].done = k
          /\ progress_log[k].total = Len(edges) + Len(locs)
          /\ Len(route_log) >= k
          /\ progress_log[k].label[1] =
                IF route_log[k].phase = "edge" THEN "EDGE" ELSE "LINK"
          /\ progress_log[k].label[2] = route_log[k].idx
    /\ AtWriteStep => Len(progress_log) = Len(edges) + Len(locs)

C17_Witness ==
    /\ AtWriteStep
    /\ Len(progress_log) = 4
    /\ RouterFailed("edge", 1)
    /\ RouterSucceeded("edge", 2)
    /\ RouterFailed("link", 1)
    /\ RouterSucceeded("link", 2)

\* a hub or a location lacks one of its coordinates
Malformed ==
    \/ \E k \in 1..Len(hubs) : ~({"lat", "lng"} \subseteq DOMAIN hubs[k])
    \/ \E k \in 1..Len(locs) : ~({"lat", "lng"} \subseteq DOMAIN locs[k])

(* C18: a hub or location record that lacks lat or lng is fatal at load    *)
(* time: no routing request is made, no output record is emitted and no    *)
(* try block absorbs it as a per-item fallback.                            *)
C18_MalformedFatalAtLoad ==
    Malformed =>
        /\ net_calls = 0
        /\ real_edges = << >>
        /\ real_links = << >>
        /\ route_log = << >>

AllIdsResolve ==
    /\ \A k \in 1..Len(edges) : EdgeResolves(edges[k])
    /\ \A k \in 1..Len(locs) : LocResolves(locs[k])

(* C19: for every input whose identifiers all resolve, if every request    *)
(* returns or fails and every delay elapses, the run eventually reaches    *)
(* the write step and completes, whatever the router does; a write that    *)
(* raises is the persistence error, the one other way a run may end there. *)
C19_RunCompletes ==
    AllIdsResolve =>
        <>(AtWriteStep /\ (status = "done" \/ error = "PersistenceError"))

(* C20: at every progress invocation and at the write step, done_steps is  *)
(* the number of output records emitted so far, len(real_edges) +          *)
(* len(real_links), and is at most total_steps.                            *)
C20_CounterIsRecordCount ==
    /\ done_steps <= total_steps
    /\ (pc \in {"edge_loop", "link_loop"} \/ AtWriteStep) =>
          done_steps = Len(real_edges) + Len(real_links)
    /\ pc \in {"edge_tick", "link_tick"} =>
          done_steps + 1 = Len(real_edges) + Len(real_links)
    /\ \A k \in 1..Len(progress_log) :
          progress_log[k].done <= progress_log[k].total

C20_Witness ==
    /\ pc = "link_loop"
    /\ Len(progress_log) = 3
    /\ Len(real_edges) = 2 /\ Len(real_links) = 1
    /\ RouterFailed("edge", 2)
    /\ done_steps = 3

=============================================================================
